---- MODULE Spec2Model ----
(***************************************************************************)
(* templatesvc: a daemon that re-renders template files when trigger       *)
(* variables of the variable server change.  The model follows             *)
(* src/src/templatesvc.c: main's startup sequence, the registry built by   *)
(* SetupTemplate, the dispatch loops ProcessTemplates / ProcessTemplate,   *)
(* and the two renderers PrintTemplateFD and PrintTemplateMQ.              *)
(*                                                                         *)
(* The collaborators (variable server, template engine, file system,       *)
(* POSIX message queues) are modelled by what their calls return: every    *)
(* open, render and send has a nondeterministic outcome.                   *)
(***************************************************************************)
EXTENDS Integers, Sequences, FiniteSets, TLC

(***************************************************************************)
(* Bounds of the model.                                                    *)
(***************************************************************************)
\* number of signals main's loop receives before the model stops
MaxSignals == 2
\* longest text one render produces
MaxLen == 2

(***************************************************************************)
(* Values.                                                                 *)
(***************************************************************************)
NULL == "NULL"

EOK == "EOK"
EINVAL == "EINVAL"
ENOENT == "ENOENT"
EBADF == "EBADF"
ENOTSUP == "ENOTSUP"
EIO == "EIO"
EMSGSIZE == "EMSGSIZE"

TMPL_FD == "TMPL_FD"
TMPL_MQ == "TMPL_MQ"

\* the handle VAR_FindByName returns for an unknown name; also the value of
\* a calloc'ed TriggerVar's hVar
VAR_INVALID == 0

\* the variable server's name table: "nf" is a name it does not know
VAR_FindByName(name) ==
    CASE name = "x" -> 1
      [] name = "y" -> 2
      [] OTHER -> VAR_INVALID

\* values a SIG_VAR_MODIFIED signal can carry
SigVals == {VAR_INVALID, 1, 2}

\* what TEMPLATE_FileToFile can return
RenderResults == {EOK, EIO}
\* what mq_send can leave in errno
SendResults == {EOK, EMSGSIZE}

Rep(c, n) == [i \in 1..n |-> c]

\* texts a render can produce: "a", "bb", "ccc", ...
Alphabet == <<"a", "b", "c", "d", "e", "f">>
Outputs == {Rep(Alphabet[n], n) : n \in 1..MaxLen}

\* content a target file can hold before the daemon starts
OldContent == Rep("z", MaxLen)

\* descriptors 0, 1 and 2 are the standard streams of the process
StdFds == {0, 1, 2}

\* open() returns the lowest descriptor not in use
FreeFd(used) ==
    CHOOSE n \in 0..(Cardinality(used \cup StdFds)) :
        /\ n \notin (used \cup StdFds)
        /\ \A m \in 0..(n - 1) : m \in (used \cup StdFds)


(***************************************************************************)
(* The configuration document: a sequence of entries, or NULL when         *)
(* JSON_Process / JSON_Find yield no "config" array.                       *)
(***************************************************************************)
CfgEntry(trigger, template, type, target, keep_open, append) ==
    [trigger |-> trigger, template |-> template, type |-> type,
     target |-> target, keep_open |-> keep_open, append |-> append]

\* "trigger" arrays of the configurations explored
TriggerLists == {<<"x">>, <<"x", "x">>, <<"y", "x">>, <<"nf", "x">>, <<"nf">>}

\* the variants of an entry: either type, any flags ("append" is read for
\* "fd" entries only)
Entries(trigger, template, target) ==
    {CfgEntry(trigger, template, "fd", target, ko, ap) :
        ko \in BOOLEAN, ap \in BOOLEAN} \cup
    {CfgEntry(trigger, template, "mq", target, ko, FALSE) : ko \in BOOLEAN}

\* configurations of one entry: any trigger array; the array that names a
\* variable twice comes with the entries that neither keep their sink open
\* nor append
SingleEntries ==
    {e \in UNION {Entries(tr, "tmplA", "tgtA") : tr \in TriggerLists} :
        e.trigger = <<"x", "x">> => (~e.keep_open /\ ~e.append)}

\* configurations of two entries of the same type: "x" triggers both, "y"
\* only the first; the targets are distinct
FirstEntries == {e \in Entries(<<"y", "x">>, "tmplA", "tgtA") : ~e.append}
SecondEntry(e1) == CfgEntry(<<"x">>, "tmplB", e1.type, "tgtB", FALSE, FALSE)

\* entries without a "template" or without a "target" (JSON_GetStr yields
\* NULL), each followed by a complete entry with the same trigger
IncompleteEntries ==
    {CfgEntry(<<"x">>, NULL, ty, "tgtA", FALSE, FALSE) : ty \in {"fd", "mq"}} \cup
    {CfgEntry(<<"x">>, "tmplA", ty, NULL, FALSE, FALSE) : ty \in {"fd", "mq"}}

\* a "config" array (nodes), or none (null)
CfgArray(nodes) == [null |-> FALSE, nodes |-> nodes]
NullCfg == [null |-> TRUE, nodes |-> <<>>]

ConfigSet ==
    {CfgArray(<<e>>) : e \in SingleEntries} \cup
    {CfgArray(<<e1, SecondEntry(e1)>>) : e1 \in FirstEntries} \cup
    {CfgArray(<<e1, SecondEntry(e1)>>) : e1 \in IncompleteEntries}

\* name of the shared memory object behind the rendering buffer
VarFPName == "templatesvc_varfp"

TargetNames == {"tgtA", "tgtB"}

(***************************************************************************)
(* State.                                                                  *)
(***************************************************************************)
VARIABLES
    pc,          \* where main is
    cfg,         \* the configuration array (JArray *cfg), possibly null
    cfgIdx,      \* JSON_Iterate's position in cfg
    hVarServer,  \* state.hVarServer: NULL or "open"
    pVarFP,      \* state.pVarFP: NULL or "open"
    varFd,       \* state.varFd
    pTemplates,  \* state.pTemplates: the list of Templates, head first
    notified,    \* handles VAR_Notify was called for
    fds,         \* the process's descriptor table: descriptor -> open file description
    files,       \* content of the target files and of the rendering buffer
    hVar,        \* ProcessTemplates' hVar
    pTemplate,   \* ProcessTemplates' pTemplate (position in the list)
    pTriggerVar, \* ProcessTemplate's pTriggerVar (position in the trigger list)
    result,      \* ProcessTemplates' result
    ptResult,    \* ProcessTemplate's result
    nSignals,    \* number of signals received so far
    pass,        \* per Template, the render calls of the current dispatch pass
    last,        \* what the most recent render call did
    files0,      \* the files' content when the daemon started
    appended     \* per target, the outputs of its append-mode Stream renders

vars == <<pc, cfg, cfgIdx, hVarServer, pVarFP, varFd, pTemplates, notified,
          fds, files, hVar, pTemplate, pTriggerVar, result, ptResult,
          nSignals, pass, last, files0, appended>>

(***************************************************************************)
(* Files and descriptors.                                                  *)
(***************************************************************************)
Max(a, b) == IF a > b THEN a ELSE b

\* open(path, flags): a new open file description at offset 0
OpenDesc(path, append) == [path |-> path, pos |-> 0, append |-> append]

\* the content of a file after `text` is written at offset `at`
WriteAt(content, at, text) ==
    [i \in 1..Max(Len(content), at + Len(text)) |->
        IF i > at /\ i <= at + Len(text) THEN text[i - at]
        ELSE IF i <= Len(content) THEN content[i]
        ELSE "\\0"]

\* a write that starts at the beginning of the file unless O_APPEND is set
WriteFd_FromStart(io, d, text) ==
    LET desc == io.fds[d]
        content == io.files[desc.path]
        at == IF desc.append THEN Len(content) ELSE 0
    IN  [fds |-> [io.fds EXCEPT ![d].pos = at + Len(text)],
         files |-> [io.files EXCEPT ![desc.path] = WriteAt(content, at, text)]]

\* write(d, text): at the end of the file for an O_APPEND description, at
\* the description's offset otherwise; the offset moves past the text
WriteFd(io, d, text) ==
    LET desc == io.fds[d]
        content == io.files[desc.path]
        at == IF desc.append THEN Len(content) ELSE desc.pos
    IN  [fds |-> [io.fds EXCEPT ![d].pos = at + Len(text)],
         files |-> [io.files EXCEPT ![desc.path] = WriteAt(content, at, text)]]

\* close(d)
CloseFd(io, d) ==
    [io EXCEPT !.fds = [x \in (DOMAIN io.fds) \ {d} |-> io.fds[x]]]

\* lseek(d, 0, SEEK_SET)
Rewind(io, d) == [io EXCEPT !.fds[d].pos = 0]

\* strlen-delimited text at the start of a buffer
CString(content) ==
    LET nul == {i \in 1..Len(content) : content[i] = "\\0"}
        n == IF nul = {} THEN Len(content)
             ELSE (CHOOSE i \in nul : \A j \in nul : i <= j) - 1
    IN  SubSeq(content, 1, n)

(***************************************************************************)
(* The renderers.  Each is the whole C function, given what the calls it   *)
(* makes return:                                                           *)
(*   e.srcOk   open(templateFileName, O_RDONLY) succeeds                   *)
(*   e.tgtOk   open(target, flags) / mq_open(target, O_WRONLY) succeeds    *)
(*   e.rc      what TEMPLATE_FileToFile returns                            *)
(*   e.out     the text TEMPLATE_FileToFile writes to its output           *)
(*   e.send    what mq_send leaves in errno (EOK: it returned 0)           *)
(* The result is the Template afterwards, the descriptor table and files   *)
(* afterwards (io), the function's return value, and a record of the       *)
(* calls made (ev).                                                        *)
(***************************************************************************)
\*   t          position of the Template in the list
\*   hBefore    the Template's fd / mq when the function was entered
\*   srcTried   open( templateFileName ) was called; srcOpened: it succeeded
\*   tgtTried   open( target ) / mq_open was called; tgtOpened: it succeeded
\*   rendered   TEMPLATE_FileToFile was called; rc, out: its result and text
\*   sent       number of mq_send calls; msg: the message passed
\*   closed     the sink was closed
\*   status     the function's return value
NoEvents ==
    [t |-> 0, kind |-> "none", keep_open |-> FALSE, append |-> FALSE,
     hBefore |-> 0, srcTried |-> FALSE, srcOpened |-> FALSE, tgtTried |-> FALSE,
     tgtOpened |-> FALSE, rendered |-> FALSE, rc |-> EOK, out |-> <<>>,
     sent |-> 0, msg |-> <<>>, closed |-> FALSE, status |-> EOK]

\* flags that ignore the append setting
OpenFlags_NoAppend(T) == [O_CREAT |-> TRUE, O_APPEND |-> FALSE, O_TRUNC |-> FALSE]

\* the flags PrintTemplateFD opens its target with
OpenFlags(T) == [O_CREAT |-> TRUE, O_APPEND |-> T.append, O_TRUNC |-> FALSE]

\* open(path, flags) succeeding with descriptor d
OpenFile(io, d, path, flags) ==
    [fds |-> (d :> OpenDesc(path, flags.O_APPEND)) @@ io.fds,
     files |-> IF flags.O_TRUNC THEN [io.files EXCEPT ![path] = <<>>]
               ELSE io.files]

\* a renderer that closes its output after every render
FDCloseAfterRender_Always(T) == TRUE

\* PrintTemplateFD closes its output after the render unless keep_open
FDCloseAfterRender(T) == T.keep_open = FALSE

\* a renderer that opens its target at every render
FDNeedsOpen_Always(T) == TRUE

\* PrintTemplateFD opens the target when the Template has no descriptor
FDNeedsOpen(T) == T.fd = -1

\* is the Template's sink open?
FDIsOpen(T) == T.fd > 0
MQIsOpen(T) == T.mq > 0
SinkIsOpen(T) == IF T.type = TMPL_MQ THEN MQIsOpen(T) ELSE FDIsOpen(T)

PrintTemplateFD(T, io, e) ==
    IF T.templateFileName = NULL \/ T.target = NULL
    THEN [T |-> T, io |-> io, result |-> ENOENT,
          ev |-> [NoEvents EXCEPT !.kind = "fd", !.keep_open = T.keep_open,
                                  !.append = T.append, !.hBefore = T.fd,
                                  !.status = ENOENT]]
    ELSE
    LET \* fd = open( pTemplateFile, O_RDONLY )
        fd == IF e.srcOk THEN FreeFd(DOMAIN io.fds) ELSE -1
        io1 == IF e.srcOk
               THEN [io EXCEPT !.fds = (fd :> OpenDesc(T.templateFileName, FALSE)) @@ @]
               ELSE io
        \* if ( pTemplate->fd == -1 ) pTemplate->fd = open( pTarget, flags )
        tryOpen == FDNeedsOpen(T)
        tfd == IF ~tryOpen THEN T.fd
               ELSE IF e.tgtOk THEN FreeFd(DOMAIN io1.fds) ELSE -1
        io2 == IF tryOpen /\ e.tgtOk
               THEN OpenFile(io1, tfd, T.target, OpenFlags(T))
               ELSE io1
        T1 == [T EXCEPT !.fd = tfd]
        \* if ( ( fd > 0 ) && ( pTemplate->fd > 0 ) )
        doRender == fd > 0 /\ T1.fd > 0
        io3 == IF doRender THEN WriteFd(io2, T1.fd, e.out) ELSE io2
        doClose == doRender /\ FDCloseAfterRender(T1)
        io4 == IF doClose THEN CloseFd(io3, T1.fd) ELSE io3
        T2 == IF doClose THEN [T1 EXCEPT !.fd = -1] ELSE T1
        \* if ( fd > 0 ) close( fd )
        io5 == IF fd > 0 THEN CloseFd(io4, fd) ELSE io4
    IN  [T |-> T2, io |-> io5,
         result |-> IF doRender THEN e.rc ELSE ENOENT,
         ev |-> [t |-> 0, kind |-> "fd", keep_open |-> T.keep_open, append |-> T.append,
                 hBefore |-> T.fd, srcTried |-> TRUE,
                 srcOpened |-> e.srcOk, tgtTried |-> tryOpen,
                 tgtOpened |-> tryOpen /\ e.tgtOk,
                 rendered |-> doRender, rc |-> IF doRender THEN e.rc ELSE ENOENT,
                 out |-> IF doRender THEN e.out ELSE <<>>,
                 sent |-> 0, msg |-> <<>>, closed |-> doClose,
                 status |-> IF doRender THEN e.rc ELSE ENOENT]]

\* PrintTemplateMQ positions the rendering buffer before the render
MQPrepareBuffer(io, d) == Rewind(io, d)

\* a renderer that closes the queue after a send only when keep_open is false
MQCloseAfterSend_KeepOpenOnly(T, sendResult) == T.keep_open = FALSE

\* PrintTemplateMQ closes the queue after a send when the send failed or
\* keep_open is false
MQCloseAfterSend(T, sendResult) == sendResult # EOK \/ T.keep_open = FALSE

\* a renderer that opens the queue only while it was never opened
MQNeedsOpen_NeverTried(T) == T.mq = 0

\* PrintTemplateMQ opens the queue when the Template has no queue handle
MQNeedsOpen(T) == T.mq <= 0

\* a renderer that goes on to the queue whatever the render returned
MQRenderOk_Ignored(rc) == TRUE

\* PrintTemplateMQ goes on to the queue only when the render returned EOK
MQRenderOk(rc) == rc = EOK

PrintTemplateMQ(T, io, e, vfd) ==
    IF ~(vfd > 0) \/ T.templateFileName = NULL \/ T.target = NULL
    THEN [T |-> T, io |-> io, result |-> ENOENT,
          ev |-> [NoEvents EXCEPT !.kind = "mq", !.keep_open = T.keep_open,
                                  !.hBefore = T.mq, !.status = ENOENT]]
    ELSE
    LET \* fd = open( pTemplateFile, O_RDONLY )
        fd == IF e.srcOk THEN FreeFd(DOMAIN io.fds) ELSE -1
        io1 == IF e.srcOk
               THEN [io EXCEPT !.fds = (fd :> OpenDesc(T.templateFileName, FALSE)) @@ @]
               ELSE io
        doRender == fd > 0
        \* lseek( varFd, 0, SEEK_SET ); TEMPLATE_FileToFile( ..., fd, varFd )
        io2 == IF doRender THEN WriteFd(MQPrepareBuffer(io1, vfd), vfd, e.out) ELSE io1
        rc == IF doRender THEN e.rc ELSE ENOENT
        \* if ( pTemplate->mq <= 0 ) pTemplate->mq = mq_open( target, O_WRONLY )
        tryOpen == doRender /\ MQRenderOk(rc) /\ MQNeedsOpen(T)
        mq == IF ~tryOpen THEN T.mq
              ELSE IF e.tgtOk THEN FreeFd(DOMAIN io2.fds) ELSE -1
        io3 == IF tryOpen /\ e.tgtOk
               THEN [io2 EXCEPT !.fds = (mq :> OpenDesc(T.target, FALSE)) @@ @]
               ELSE io2
        T1 == [T EXCEPT !.mq = mq]
        \* pData = VARFP_GetData( pVarFP ), the start of the buffer (not NULL:
        \* varFd > 0 only when VARFP_Open succeeded);
        \* mq_send( pTemplate->mq, pData, strlen( pData ), 0 )
        doSend == doRender /\ MQRenderOk(rc) /\ T1.mq > 0
        msg == CString(io3.files[VarFPName])
        doClose == doSend /\ MQCloseAfterSend(T1, e.send)
        io4 == IF doClose THEN CloseFd(io3, T1.mq) ELSE io3
        T2 == IF doClose THEN [T1 EXCEPT !.mq = -1] ELSE T1
        \* if ( fd > 0 ) close( fd )
        io5 == IF fd > 0 THEN CloseFd(io4, fd) ELSE io4
        res == IF ~doRender THEN ENOENT
               ELSE IF rc # EOK THEN rc
               ELSE IF ~(T1.mq > 0) THEN EBADF
               ELSE e.send
    IN  [T |-> T2, io |-> io5, result |-> res,
         ev |-> [t |-> 0, kind |-> "mq", keep_open |-> T.keep_open, append |-> FALSE,
                 hBefore |-> T.mq, srcTried |-> TRUE,
                 srcOpened |-> e.srcOk, tgtTried |-> tryOpen,
                 tgtOpened |-> tryOpen /\ e.tgtOk,
                 rendered |-> doRender, rc |-> rc,
                 out |-> IF doRender THEN e.out ELSE <<>>,
                 sent |-> IF doSend THEN 1 ELSE 0,
                 msg |-> IF doSend THEN msg ELSE <<>>, closed |-> doClose,
                 status |-> res]]

\* the outcomes of the calls a render makes
Envs ==
    [srcOk : BOOLEAN, tgtOk : BOOLEAN, rc : RenderResults, out : Outputs,
     send : SendResults]

(***************************************************************************)
(* Configuration load: SetupTemplate and the trigger binding.              *)
(***************************************************************************)
RECURSIVE SetupTriggers(_, _)
\* JSON_Iterate( trigger array, SetupTriggers, &pTemplate->pTriggers ): each
\* name becomes a calloc'ed TriggerVar inserted at the head of the list
SetupTriggers(names, pTriggers) ==
    IF names = <<>> THEN pTriggers
    ELSE SetupTriggers(Tail(names),
                       <<[hVar |-> 0, name |-> Head(names)]>> \o pTriggers)

\* SetupTriggerNotification: resolve the name; the handle it stores
SetupTriggerNotification(tv) ==
    [tv EXCEPT !.hVar = VAR_FindByName(tv.name)]

\* a binder that gives up the whole list when one name does not resolve
SetupTriggerNotifications_AllOrNothing(pTriggers) ==
    IF \E i \in 1..Len(pTriggers) : VAR_FindByName(pTriggers[i].name) = VAR_INVALID
    THEN pTriggers
    ELSE [i \in 1..Len(pTriggers) |-> SetupTriggerNotification(pTriggers[i])]

\* SetupTriggerNotifications: every TriggerVar of the list is set up
SetupTriggerNotifications(pTriggers) ==
    [i \in 1..Len(pTriggers) |-> SetupTriggerNotification(pTriggers[i])]

\* the handles VAR_Notify( hVarServer, hVar, NOTIFY_MODIFIED ) is called for
NotifyRequests(pTriggers) ==
    {pTriggers[i].hVar : i \in 1..Len(pTriggers)} \ {VAR_INVALID}

\* the Template SetupTemplate builds from one configuration entry
SetupTemplate(pNode) ==
    LET tt == IF pNode.type = "mq" THEN TMPL_MQ ELSE TMPL_FD
        pTriggers == SetupTriggerNotifications(SetupTriggers(pNode.trigger, <<>>))
    IN  [pTriggers |-> pTriggers,
         templateFileName |-> pNode.template,
         target |-> pNode.target,
         type |-> tt,
         fd |-> -1,
         mq |-> 0,
         keep_open |-> pNode.keep_open,
         append |-> pNode.append]

\* a registry that keeps the Templates in the order of the configuration
InsertTemplate_AtTail(list, T) == list \o <<T>>

\* a registry that leaves out a Template one of whose triggers did not bind
InsertTemplate_OnlyIfBound(list, T) ==
    IF \E j \in 1..Len(T.pTriggers) : T.pTriggers[j].hVar = VAR_INVALID
    THEN list
    ELSE <<T>> \o list

\* pTemplate->pNext = pState->pTemplates; pState->pTemplates = pTemplate
InsertTemplate(list, T) == <<T>> \o list

(***************************************************************************)
(* Dispatch helpers.                                                       *)
(***************************************************************************)
\* a test that takes any resolved TriggerVar for a match
TriggerMatches_AnyResolved(pTrig, h) == pTrig.hVar # VAR_INVALID

\* ProcessTemplate's test of one TriggerVar against the notified handle
TriggerMatches(pTrig, h) == pTrig.hVar = h

\* a guard that lets every notified value through
ValidHandle_Any(h) == TRUE

\* ProcessTemplate looks at the TriggerVars only for a valid notified handle
ValidHandle(h) == h # VAR_INVALID

\* ProcessTemplates' bookkeeping of ProcessTemplate's return value
Aggregate(res, rc) == IF rc # EOK THEN rc ELSE res

\* a loop that gives up at the first Template whose render fails
NextTemplate_StopOnFailure(p, rc) ==
    IF rc \notin {EOK, EINVAL} THEN Len(pTemplates) + 1 ELSE p + 1

\* ProcessTemplates moves to the next Template whatever rc was
NextTemplate(p, rc) == p + 1

\* a dispatcher that renders nothing without the rendering buffer
Render_NeedsBuffer(T, io, e, vfd) ==
    IF ~(vfd > 0)
    THEN [T |-> T, io |-> io, result |-> ENOENT,
          ev |-> [NoEvents EXCEPT !.kind = IF T.type = TMPL_MQ THEN "mq" ELSE "fd",
                                  !.keep_open = T.keep_open,
                                  !.hBefore = IF T.type = TMPL_MQ THEN T.mq ELSE T.fd,
                                  !.status = ENOENT]]
    ELSE IF T.type = TMPL_FD THEN PrintTemplateFD(T, io, e)
    ELSE PrintTemplateMQ(T, io, e, vfd)

\* a dispatcher that closes a Template's sink when its render failed
Render_ClosesOnFailure(T, io, e, vfd) ==
    LET r == IF T.type = TMPL_FD THEN PrintTemplateFD(T, io, e)
             ELSE PrintTemplateMQ(T, io, e, vfd)
        h == IF T.type = TMPL_MQ THEN r.T.mq ELSE r.T.fd
    IN  IF r.result # EOK /\ h > 0
        THEN [r EXCEPT !.T.fd = -1, !.T.mq = -1,
                       !.io = CloseFd(r.io, h), !.ev.closed = TRUE]
        ELSE r

\* a dispatcher that stops keeping a sink open once a render of it failed
Render_ForgetsKeepOpen(T, io, e, vfd) ==
    LET r == IF T.type = TMPL_FD THEN PrintTemplateFD(T, io, e)
             ELSE PrintTemplateMQ(T, io, e, vfd)
    IN  IF r.result # EOK THEN [r EXCEPT !.T.keep_open = FALSE] ELSE r

\* the switch on pTemplate->type
Render(T, io, e, vfd) ==
    IF T.type = TMPL_FD THEN PrintTemplateFD(T, io, e)
    ELSE IF T.type = TMPL_MQ THEN PrintTemplateMQ(T, io, e, vfd)
    ELSE [T |-> T, io |-> io, result |-> ENOTSUP, ev |-> NoEvents]

\* the outcomes that can make a difference to a Template's renderer: a
\* call that is not made has one (arbitrary) outcome
EnvsFor(T) ==
    LET any == CHOOSE o \in Outputs : \A o2 \in Outputs : Len(o) <= Len(o2)
    IN  {e \in Envs :
            /\ ~e.srcOk => (e.rc = EOK /\ e.out = any)
            /\ SinkIsOpen(T) => e.tgtOk
            /\ T.type = TMPL_FD =>
                  /\ e.send = EOK
                  /\ ~e.tgtOk => (e.rc = EOK /\ e.out = any)
            /\ T.type = TMPL_MQ =>
                  /\ (~e.srcOk \/ e.rc # EOK) => (e.tgtOk /\ e.send = EOK)
                  /\ ~e.tgtOk => e.send = EOK}

EmptyPass == [i \in 1..Len(pTemplates) |-> [n |-> 0, rc |-> "none"]]

(***************************************************************************)
(* Initial state: main has cleared `state`, set varFd = -1 and installed   *)
(* the termination handler.                                                *)
(***************************************************************************)
Init ==
    /\ pc = "SetupVarFP"
    /\ cfg \in ConfigSet \cup {NullCfg}
    /\ cfgIdx = 1
    /\ hVarServer = NULL
    /\ pVarFP = NULL
    /\ varFd = -1
    /\ pTemplates = <<>>
    /\ notified = {}
    /\ fds = [d \in {} |-> NULL]
    /\ files = [f \in TargetNames \cup {VarFPName} |->
                   IF f = VarFPName THEN <<>> ELSE OldContent]
    /\ hVar = VAR_INVALID
    /\ pTemplate = 0
    /\ pTriggerVar = 0
    /\ result = EINVAL
    /\ ptResult = EINVAL
    /\ nSignals = 0
    /\ pass = <<>>
    /\ last = NoEvents
    /\ files0 = files
    /\ appended = [f \in TargetNames |-> [outs |-> <<>>, ok |-> TRUE]]

dispatchVars == <<hVar, pTemplate, pTriggerVar, result, ptResult, nSignals, pass, last, appended>>

(***************************************************************************)
(* main, lines 241-255: startup.                                           *)
(***************************************************************************)
\* SetupVarFP( &state ): VARFP_Open and VARFP_GetFd succeed, or the buffer
\* is left unset (pVarFP NULL, varFd -1); main ignores the return value
SetupVarFP ==
    /\ pc = "SetupVarFP"
    /\ \/ \* VARFP_Open and VARFP_GetFd succeed
          LET d == FreeFd(DOMAIN fds)
          IN  /\ pVarFP' = "open"
              /\ varFd' = d
              /\ fds' = (d :> OpenDesc(VarFPName, FALSE)) @@ fds
       \/ \* VARFP_Open succeeds, VARFP_GetFd returns -1
          /\ pVarFP' = "open"
          /\ varFd' = -1
          /\ UNCHANGED fds
       \/ \* VARFP_Open fails
          UNCHANGED <<pVarFP, varFd, fds>>
    /\ pc' = "VARSERVER_Open"
    /\ UNCHANGED <<cfg, cfgIdx, hVarServer, pTemplates, notified, files, files0>>
    /\ UNCHANGED dispatchVars

\* a main that goes on without looking at the handle
AfterVarServerOpen_Unchecked(h) == "JSON_Iterate"

\* if( state.hVarServer != NULL ) { load and loop }; otherwise main returns
AfterVarServerOpen(h) == IF h # NULL THEN "JSON_Iterate" ELSE "exit"

\* JSON_Process, JSON_Find (cfg is whatever they yield) and VARSERVER_Open
VarServerOpen ==
    /\ pc = "VARSERVER_Open"
    /\ \E h \in {"open", NULL} :
          /\ hVarServer' = h
          /\ pc' = AfterVarServerOpen(h)
    /\ UNCHANGED <<cfg, cfgIdx, pVarFP, varFd, pTemplates, notified, fds, files, files0>>
    /\ UNCHANGED dispatchVars

\* JSON_Iterate( cfg, SetupTemplate, &state ): one callback per entry
IterateConfig ==
    /\ pc = "JSON_Iterate"
    /\ IF ~cfg.null /\ cfgIdx <= Len(cfg.nodes)
       THEN LET T == SetupTemplate(cfg.nodes[cfgIdx])
            IN  /\ pTemplates' = InsertTemplate(pTemplates, T)
                /\ notified' = notified \cup NotifyRequests(T.pTriggers)
                /\ cfgIdx' = cfgIdx + 1
                /\ pc' = pc
       ELSE /\ pc' = "WaitSignal"
            /\ UNCHANGED <<pTemplates, notified, cfgIdx>>
    /\ UNCHANGED <<cfg, hVarServer, pVarFP, varFd, fds, files, files0>>
    /\ UNCHANGED dispatchVars

(***************************************************************************)
(* main, lines 257-265: the dispatch loop.                                 *)
(***************************************************************************)
\* VARSERVER_WaitSignal returns; SIG_VAR_MODIFIED enters ProcessTemplates
WaitSignal ==
    /\ pc = "WaitSignal"
    /\ nSignals < MaxSignals
    /\ nSignals' = nSignals + 1
    /\ \/ \E sigval \in SigVals :
             /\ hVar' = sigval
             /\ result' = EOK
             /\ pTemplate' = 1
             /\ pass' = EmptyPass
             /\ pc' = "ProcessTemplates"
             /\ UNCHANGED <<pTriggerVar, ptResult>>
       \/ \* any other signal: the loop waits again
          UNCHANGED <<pc, hVar, result, pTemplate, pass, pTriggerVar, ptResult>>
    /\ UNCHANGED <<cfg, cfgIdx, hVarServer, pVarFP, varFd, pTemplates, notified,
                   fds, files, files0, last, appended>>

\* ProcessTemplates' while loop: call ProcessTemplate for the next Template,
\* or return to main
ProcessTemplatesLoop ==
    /\ pc = "ProcessTemplates"
    /\ IF pTemplate <= Len(pTemplates)
       THEN /\ ptResult' = EINVAL
            /\ pTriggerVar' = 1
            /\ pc' = "ProcessTemplate"
       ELSE /\ pc' = "ProcessTemplates_return"
            /\ UNCHANGED <<ptResult, pTriggerVar>>
    /\ UNCHANGED <<cfg, cfgIdx, hVarServer, pVarFP, varFd, pTemplates, notified,
                   fds, files, files0, hVar, pTemplate, result, nSignals, pass,
                   last, appended>>

\* a main that leaves the loop when a pass reports a failure
AfterDispatch_StopOnFailure(rc) == IF rc # EOK THEN "exit" ELSE "WaitSignal"

\* while( 1 ): whatever ProcessTemplates returned, main waits again
AfterDispatch(rc) == "WaitSignal"

\* ProcessTemplates has returned; main ignores the value and loops: the
\* locals of the pass are gone
MainLoop ==
    /\ pc = "ProcessTemplates_return"
    /\ pc' = AfterDispatch(result)
    /\ hVar' = VAR_INVALID
    /\ pTemplate' = 0
    /\ pTriggerVar' = 0
    /\ result' = EINVAL
    /\ ptResult' = EINVAL
    /\ pass' = <<>>
    /\ last' = NoEvents
    /\ UNCHANGED <<cfg, cfgIdx, hVarServer, pVarFP, varFd, pTemplates, notified,
                   fds, files, files0, nSignals, appended>>

\* the bookkeeping of one render call
NoteAppend(a, T, r) ==
    IF T.type = TMPL_FD /\ T.append /\ r.ev.rendered
    THEN [a EXCEPT ![T.target] =
             [outs |-> @.outs \o r.ev.out, ok |-> @.ok /\ r.result = EOK]]
    ELSE a

\* one iteration of ProcessTemplate's while loop over the TriggerVars (a
\* matching TriggerVar renders the Template), or its return to
\* ProcessTemplates, which records the status and moves on
ProcessTemplateLoop ==
    /\ pc = "ProcessTemplate"
    /\ LET T == pTemplates[pTemplate]
       IN  IF ValidHandle(hVar) /\ pTriggerVar <= Len(T.pTriggers)
           THEN /\ IF TriggerMatches(T.pTriggers[pTriggerVar], hVar)
                   THEN \E e \in EnvsFor(T) :
                           LET r == Render(T, [fds |-> fds, files |-> files], e, varFd)
                           IN  /\ pTemplates' = [pTemplates EXCEPT ![pTemplate] = r.T]
                               /\ fds' = r.io.fds
                               /\ files' = r.io.files
                               /\ ptResult' = r.result
                               /\ pass' = [pass EXCEPT ![pTemplate] =
                                              [n |-> @.n + 1, rc |-> r.result]]
                               /\ last' = [r.ev EXCEPT !.t = pTemplate]
                               /\ appended' = NoteAppend(appended, T, r)
                   ELSE UNCHANGED <<pTemplates, fds, files, ptResult, pass, last, appended>>
                /\ pTriggerVar' = pTriggerVar + 1
                /\ UNCHANGED <<pc, pTemplate, result>>
           ELSE /\ result' = Aggregate(result, ptResult)
                /\ pTemplate' = NextTemplate(pTemplate, ptResult)
                /\ pc' = "ProcessTemplates"
                /\ UNCHANGED <<pTemplates, fds, files, ptResult, pass, last,
                               appended, pTriggerVar>>
    /\ UNCHANGED <<cfg, cfgIdx, hVarServer, pVarFP, varFd, notified, files0,
                   hVar, nSignals>>

(***************************************************************************)
(* TerminationHandler: SIGTERM or SIGINT at any point after the handler    *)
(* is installed.                                                           *)
(***************************************************************************)
\* main is inside a render call: the TriggerVar it is at matches
InRender ==
    /\ pc = "ProcessTemplate"
    /\ LET T == pTemplates[pTemplate]
       IN  /\ ValidHandle(hVar)
           /\ pTriggerVar <= Len(T.pTriggers)
           /\ TriggerMatches(T.pTriggers[pTriggerVar], hVar)

\* main is inside library code that is not async-signal-safe (allocation,
\* stdio, syslog): the startup calls and the render calls.  The waiting
\* state is a system call, the loops of the pass are plain C.
InUnsafeCall ==
    pc \in {"SetupVarFP", "VARSERVER_Open", "JSON_Iterate"} \/ InRender

\* the files a render leaves when it is cut off inside TEMPLATE_FileToFile:
\* a proper prefix of the text has been written to its output
InterruptedFiles ==
    IF InRender
    THEN UNION {
           {Render(pTemplates[pTemplate], [fds |-> fds, files |-> files],
                   [srcOk |-> TRUE, tgtOk |-> TRUE, rc |-> EOK,
                    out |-> SubSeq(o, 1, k), send |-> EOK], varFd).io.files :
               k \in 0..(Len(o) - 1)} : o \in Outputs}
    ELSE {files}

\* The handler calls VARSERVER_Close, VARFP_Close, syslog and exit.  None
\* of them is async-signal-safe: when the signal interrupts main inside
\* such a call the behaviour is undefined, and the handler either gets to
\* exit or blocks on a lock main holds ("hung").
TerminationHandler ==
    /\ pc \notin {"exit", "terminated", "hung"}
    \* VARSERVER_Close( state.hVarServer ) returns EOK or not
    /\ \E closed \in BOOLEAN :
          hVarServer' = IF closed THEN NULL ELSE hVarServer
    /\ \/ \* exit( 1 )
          /\ pc' = "terminated"
          /\ files' \in InterruptedFiles
       \/ /\ InUnsafeCall
          /\ pc' = "hung"
          /\ files' \in InterruptedFiles
    \* the process image is gone, or is never used again
    /\ fds' = [d \in {} |-> NULL]
    /\ pTemplates' = <<>>
    /\ hVar' = VAR_INVALID
    /\ pTemplate' = 0
    /\ pTriggerVar' = 0
    /\ result' = EINVAL
    /\ ptResult' = EINVAL
    /\ pass' = <<>>
    /\ last' = NoEvents
    /\ UNCHANGED <<cfg, cfgIdx, pVarFP, varFd, notified, files0,
                   nSignals, appended>>

Next ==
    \/ SetupVarFP
    \/ VarServerOpen
    \/ IterateConfig
    \/ WaitSignal
    \/ ProcessTemplatesLoop
    \/ ProcessTemplateLoop
    \/ MainLoop
    \/ TerminationHandler

Spec == Init /\ [][Next]_vars

\* the configurations the fair behaviours start from: no sink is kept open,
\* and an entry that appends has one trigger
LoopConfigs ==
    {c \in ConfigSet \cup {NullCfg} :
        \A k \in 1..Len(c.nodes) :
            /\ ~c.nodes[k].keep_open
            /\ c.nodes[k].append => Len(c.nodes[k].trigger) = 1}

LoopInit == Init /\ cfg \in LoopConfigs

\* main is one thread whose calls return: a step of the dispatch pass that
\* can be taken is taken.  Nothing says that a signal ever arrives.
FairSpec ==
    /\ LoopInit
    /\ [][Next]_vars
    /\ WF_vars(ProcessTemplatesLoop)
    /\ WF_vars(ProcessTemplateLoop)
    /\ WF_vars(MainLoop)

(***************************************************************************)
(* Properties.                                                             *)
(***************************************************************************)
\* one of T's TriggerVars holds handle h
HoldsHandle(T, h) == \E j \in 1..Len(T.pTriggers) : T.pTriggers[j].hVar = h

InPass == pc \in {"ProcessTemplates", "ProcessTemplate", "ProcessTemplates_return"}
PassDone == pc = "ProcessTemplates_return"

\* the Template the most recent render call was for
LastT == pTemplates[last.t]

\* C1: for a valid notified handle, a dispatch pass renders a Template if
\* and only if one of its TriggerVars holds the handle: no Template is
\* rendered for a handle none of its TriggerVars holds, and when the pass is
\* done every Template holding the handle has been rendered.
C1_RenderIffTriggered ==
    /\ InPass =>
          \A i \in 1..Len(pTemplates) :
              pass[i].n > 0 => (hVar # VAR_INVALID /\ HoldsHandle(pTemplates[i], hVar))
    /\ (PassDone /\ hVar # VAR_INVALID) =>
          \A i \in 1..Len(pTemplates) :
              HoldsHandle(pTemplates[i], hVar) => pass[i].n > 0

\* a pass for a valid handle that rendered one Template and left another
C1_Witness ==
    /\ PassDone
    /\ hVar # VAR_INVALID
    /\ \E i, j \in 1..Len(pTemplates) :
          /\ pass[i].n > 0 /\ HoldsHandle(pTemplates[i], hVar)
          /\ pass[j].n = 0 /\ ~HoldsHandle(pTemplates[j], hVar)

\* C2: within one dispatch pass a Template is rendered at most once, also
\* when several of its TriggerVars hold the notified handle.
C2_RenderedAtMostOnce ==
    InPass => \A i \in 1..Len(pTemplates) : pass[i].n <= 1

\* C3: a failed render does not stop the pass: when the pass is done, every
\* Template holding the notified handle has been rendered, whichever other
\* Templates' renders failed.
C3_FailureDoesNotStopPass ==
    (PassDone /\ hVar # VAR_INVALID) =>
        \A a, b \in 1..Len(pTemplates) :
            (/\ a # b
             /\ pass[a].n > 0 /\ pass[a].rc # EOK
             /\ HoldsHandle(pTemplates[b], hVar)) => pass[b].n > 0

\* the first Template visited failed and the one after it was still rendered
C3_Witness ==
    /\ PassDone
    /\ Len(pTemplates) = 2
    /\ pass[1].n > 0 /\ pass[1].rc # EOK
    /\ pass[2].n > 0

\* the positions of the Templates whose render in this pass failed
FailedInPass == {i \in 1..Len(pTemplates) : pass[i].n > 0 /\ pass[i].rc # EOK}

\* C4: the status ProcessTemplates returns is EOK when every Template
\* holding the notified handle rendered successfully (Templates not holding
\* it do not count), and otherwise the status of the last failed render in
\* iteration order.
C4_AggregateStatus ==
    (/\ PassDone
     /\ hVar # VAR_INVALID
     /\ \E i \in 1..Len(pTemplates) : HoldsHandle(pTemplates[i], hVar)) =>
        result = IF FailedInPass = {} THEN EOK
                 ELSE pass[CHOOSE i \in FailedInPass :
                                \A j \in FailedInPass : j <= i].rc

\* C5: after a render call for a Template with keep_open false, the
\* Template's sink is closed, whatever the call's outcome.
C5_NotKeptOpenIsClosed ==
    (last.kind # "none" /\ ~last.keep_open) => ~SinkIsOpen(LastT)

\* the Template's sink handle (fd or mq)
SinkHandle(T) == IF T.type = TMPL_MQ THEN T.mq ELSE T.fd

\* C6: a successful render of a Template with keep_open true leaves the sink
\* open, and when the sink was already open it is the same handle and no
\* open was attempted: over consecutive successful renders the target is
\* opened once.
C6_KeptOpenIsReused ==
    (last.kind # "none" /\ last.keep_open /\ last.status = EOK) =>
        /\ SinkIsOpen(LastT)
        /\ last.hBefore > 0 =>
              (/\ ~last.tgtTried
               /\ SinkHandle(LastT) = last.hBefore
               /\ ~last.closed)

\* a successful render, in a later pass, on a sink an earlier render opened
C6_Witness ==
    /\ last.kind # "none" /\ last.keep_open /\ last.status = EOK
    /\ last.hBefore > 0
    /\ nSignals >= 2
    /\ SinkHandle(LastT) = last.hBefore

\* C7: a Stream render that cannot open the template source or the target
\* fails, does not call the render engine, and leaves the sink as it was.
C7_OpenFailureChangesNothing ==
    (/\ last.kind = "fd"
     /\ \/ (last.srcTried /\ ~last.srcOpened)
        \/ (last.tgtTried /\ ~last.tgtOpened)) =>
        /\ last.status # EOK
        /\ ~last.rendered
        /\ SinkIsOpen(LastT) = (last.hBefore > 0)

\* C8: after a successful Stream render with append false that opened the
\* target, the target holds exactly the text of that render.
C8_OpenDiscardsContent ==
    (/\ last.kind = "fd" /\ ~last.append
     /\ last.tgtOpened /\ last.rendered /\ last.status = EOK) =>
        files[LastT.target] = last.out

\* C9: while every render of an append-mode Stream Template has succeeded,
\* its target holds the content it had at startup followed by the texts of
\* those renders, in order.
C9_AppendAccumulates ==
    \A i \in 1..Len(pTemplates) :
        LET T == pTemplates[i]
        IN  (T.type = TMPL_FD /\ T.append /\ appended[T.target].ok) =>
                files[T.target] = files0[T.target] \o appended[T.target].outs

\* two successful renders, "a" then "bb", have been appended
C9_Witness ==
    \E i \in 1..Len(pTemplates) :
        LET T == pTemplates[i]
        IN  /\ T.type = TMPL_FD /\ T.append /\ appended[T.target].ok
            /\ appended[T.target].outs = <<"a", "b", "b">>
            /\ files[T.target] = files0[T.target] \o <<"a", "b", "b">>

\* C10: the message a Queue render sends is exactly the text of that render.
C10_MessageIsCurrentRender ==
    (last.kind = "mq" /\ last.sent > 0) => last.msg = last.out

\* the descriptors and queue handles of the process that are open on T's
\* target
LiveHandles(T) == {d \in DOMAIN fds : fds[d].path = T.target}

\* C11: in every reachable state a Template has no live sink handle or
\* exactly one, the one it records: a Template whose sink is open owns that
\* one descriptor or queue handle, a Template whose sink is not open owns
\* none, and a render call that finds the sink open does not open it again.
C11_AtMostOneLiveHandle ==
    /\ \A i \in 1..Len(pTemplates) :
          LET T == pTemplates[i]
          IN  /\ Cardinality(LiveHandles(T)) <= 1
              /\ SinkIsOpen(T) => LiveHandles(T) = {SinkHandle(T)}
              /\ ~SinkIsOpen(T) => LiveHandles(T) = {}
    /\ (last.kind # "none" /\ last.hBefore > 0) => ~last.tgtTried

\* a render on a sink that was already open, which still has one handle
C11_Witness ==
    /\ last.kind # "none" /\ last.hBefore > 0 /\ last.rendered
    /\ SinkIsOpen(LastT)
    /\ LiveHandles(LastT) = {last.hBefore}

\* the configuration has been loaded: main is in its dispatch loop
Loaded == pc \in {"WaitSignal", "ProcessTemplates", "ProcessTemplate",
                  "ProcessTemplates_return"}

\* the position in the registry of the Template built from entry k (each
\* Template is inserted at the head)
PosOf(k) == Len(cfg.nodes) - k + 1

\* the entry names a trigger that resolves and one that does not
MixedTriggers(entry) ==
    /\ \E j \in 1..Len(entry.trigger) : VAR_FindByName(entry.trigger[j]) # VAR_INVALID
    /\ \E j \in 1..Len(entry.trigger) : VAR_FindByName(entry.trigger[j]) = VAR_INVALID

\* C12: an entry with one trigger name that resolves and one that does not
\* still has its Template in the registry once the configuration is loaded,
\* a notification was requested for the resolved handle, and a dispatch
\* pass for that handle renders the Template.
C12_PartlyBoundStillRenders ==
    Loaded =>
        \A k \in 1..Len(cfg.nodes) :
            MixedTriggers(cfg.nodes[k]) =>
                /\ Len(pTemplates) = Len(cfg.nodes)
                /\ pTemplates[PosOf(k)].target = cfg.nodes[k].target
                /\ \A j \in 1..Len(cfg.nodes[k].trigger) :
                      LET h == VAR_FindByName(cfg.nodes[k].trigger[j])
                      IN  h # VAR_INVALID =>
                             /\ h \in notified
                             /\ (PassDone /\ hVar = h) => pass[PosOf(k)].n > 0

\* a pass for the resolved handle rendered a partly bound Template, and the
\* render succeeded
C12_Witness ==
    /\ PassDone
    /\ Len(cfg.nodes) = 1
    /\ MixedTriggers(cfg.nodes[1])
    /\ hVar = VAR_FindByName("x")
    /\ pass[1].n > 0 /\ pass[1].rc = EOK

\* the TriggerVars of T whose name did not resolve
Unresolved(T) ==
    {j \in 1..Len(T.pTriggers) : VAR_FindByName(T.pTriggers[j].name) = VAR_INVALID}

\* C13: a TriggerVar whose name did not resolve keeps the invalid handle,
\* and it never causes a render: whenever a Template has been rendered in a
\* pass, the notified handle is valid and is held by a TriggerVar of the
\* Template whose name resolved.  In particular a notification carrying the
\* invalid handle value renders nothing.
C13_UnresolvedNeverRenders ==
    \A i \in 1..Len(pTemplates) :
        LET T == pTemplates[i]
        IN  /\ \A j \in Unresolved(T) : T.pTriggers[j].hVar = VAR_INVALID
            /\ (InPass /\ pass[i].n > 0) =>
                   /\ hVar # VAR_INVALID
                   /\ \E j \in (1..Len(T.pTriggers)) \ Unresolved(T) :
                          T.pTriggers[j].hVar = hVar

\* a pass for the invalid handle value is done, and the Template with an
\* unresolved TriggerVar was not rendered
C13_Witness ==
    /\ PassDone
    /\ hVar = VAR_INVALID
    /\ \E i \in 1..Len(pTemplates) :
          /\ Unresolved(pTemplates[i]) # {}
          /\ pass[i].n = 0

\* the entry has its "template" and its "target"
Complete(entry) == entry.template # NULL /\ entry.target # NULL

\* C14: an entry whose "template" or "target" is missing is skipped: once
\* the configuration is loaded the registry holds one Template per complete
\* entry and no Template without a template file name or without a target.
C14_IncompleteEntrySkipped ==
    Loaded =>
        /\ Len(pTemplates) =
              Cardinality({k \in 1..Len(cfg.nodes) : Complete(cfg.nodes[k])})
        /\ \A i \in 1..Len(pTemplates) :
              /\ pTemplates[i].templateFileName # NULL
              /\ pTemplates[i].target # NULL

\* C15: when the configuration document yields no "config" array, the
\* process exits before it enters the dispatch loop: the waiting state is
\* never reached.
C15_NoConfigNeverWaits ==
    cfg.null => ~Loaded

\* main is past VARSERVER_Open and has not been terminated
PastVarServerOpen == pc \notin {"SetupVarFP", "VARSERVER_Open", "terminated", "hung"}

\* C16: when VARSERVER_Open fails, main returns: no Template is built, no
\* notification is requested, the dispatch loop is never entered (no signal
\* is waited for) and nothing is rendered.
C16_NoConnectionNoLoop ==
    (PastVarServerOpen /\ hVarServer = NULL) =>
        /\ pc = "exit"
        /\ cfgIdx = 1
        /\ pTemplates = <<>>
        /\ notified = {}
        /\ nSignals = 0
        /\ last.kind = "none"
        /\ files = files0

\* the connection failed for a configuration with entries, and main returned
C16_Witness ==
    /\ pc = "exit"
    /\ hVarServer = NULL
    /\ ~cfg.null /\ Len(cfg.nodes) = 2

\* a termination signal has been handled
Signalled == pc \in {"terminated", "hung"}

\* C17: every dispatch pass, whatever its renders returned, is followed by
\* the waiting state (or by the termination of the process by a signal),
\* and once main is in its loop only the termination handler takes it out.
C17_PassReturnsToWaiting ==
    /\ InPass ~> (pc = "WaitSignal" \/ Signalled)
    /\ [][Loaded => (Loaded' \/ Signalled')]_vars

\* a render failed in an earlier pass, and a later pass has rendered the
\* same Template successfully
C17_Witness ==
    /\ PassDone
    /\ nSignals >= 2
    /\ \E i \in 1..Len(pTemplates) :
          LET T == pTemplates[i]
          IN  /\ T.type = TMPL_FD /\ T.append /\ Len(T.pTriggers) = 1
              /\ ~appended[T.target].ok
              /\ pass[i].n = 1 /\ pass[i].rc = EOK

Settings(T) == [T EXCEPT !.fd = -1, !.mq = -1]

\* C19: once main is in its loop, no step changes the registry except for
\* the sink state of a Template being rendered: the Templates, their paths,
\* kind, flags and TriggerVars (names and handles) stay as they are, and a
\* Template whose sink state changes is the one the pass is at, holds the
\* notified handle and has just been rendered.
C19_PassChangesOnlySinkState ==
    [][(Loaded /\ Loaded') =>
          /\ Len(pTemplates') = Len(pTemplates)
          /\ \A i \in 1..Len(pTemplates) :
                /\ Settings(pTemplates'[i]) = Settings(pTemplates[i])
                /\ pTemplates'[i] # pTemplates[i] =>
                      /\ pc = "ProcessTemplate" /\ pTemplate = i
                      /\ hVar # VAR_INVALID
                      /\ HoldsHandle(pTemplates[i], hVar)
                      /\ pass'[i].n = pass[i].n + 1]_vars

\* a render has opened the sink of one Template and failed on it or not,
\* while the other Template, which does not hold the handle, is as built
C19_Witness ==
    /\ InPass
    /\ Len(pTemplates) = 2
    /\ last.kind # "none" /\ last.tgtOpened /\ SinkIsOpen(LastT)
    /\ \E j \in 1..2 :
          /\ j # last.t
          /\ ~HoldsHandle(pTemplates[j], hVar)
          /\ pTemplates[j] = SetupTemplate(cfg.nodes[PosOf(j)])

\* C20: a Queue render opens the queue and sends only after the render into
\* the buffer succeeded: when the template source cannot be opened or the
\* render fails, no mq_open is attempted and no message is sent; when the
\* render succeeds and the queue is open, or is opened, exactly one message
\* is sent.
C20_QueueOnlyAfterRender ==
    last.kind = "mq" =>
        /\ (last.tgtTried \/ last.sent > 0) =>
               (last.srcOpened /\ last.rendered /\ last.rc = EOK)
        /\ (last.rendered /\ last.rc = EOK
               /\ (last.hBefore > 0 \/ last.tgtOpened)) => last.sent = 1
        /\ last.sent <= 1

\* the render into the buffer failed: the closed queue was left alone
C20_Witness ==
    /\ last.kind = "mq"
    /\ last.rendered /\ last.rc # EOK
    /\ last.hBefore <= 0
    /\ ~last.tgtTried /\ last.sent = 0
    /\ LiveHandles(LastT) = {}

\* C21: after a Queue render that sent, the queue handle is closed if the
\* send failed, whatever keep_open is, or if keep_open is false; it is open
\* only when the send succeeded and keep_open is true.  The status of the
\* render is the status of the send, so a failed send returns a failure.
C21_QueueClosedAfterFailedSend ==
    (last.kind = "mq" /\ last.sent > 0) =>
        /\ last.closed = (last.status # EOK \/ ~last.keep_open)
        /\ SinkIsOpen(LastT) = (last.status = EOK /\ last.keep_open)
        /\ SinkIsOpen(LastT) => LiveHandles(LastT) = {SinkHandle(LastT)}
        /\ ~SinkIsOpen(LastT) => LiveHandles(LastT) = {}

\* a send on a kept-open queue failed and the queue was closed
C21_Witness ==
    /\ last.kind = "mq" /\ last.sent > 0
    /\ last.keep_open
    /\ last.status # EOK
    /\ last.closed /\ ~SinkIsOpen(LastT)

\* C22: when a Queue render rendered successfully and mq_open fails, the
\* render returns EBADF, sends nothing and leaves the Template without a
\* queue handle; and every successful render that finds the Template
\* without a queue handle, also after such a failure, calls mq_open.
C22_QueueOpenFailureIsRetried ==
    last.kind = "mq" =>
        /\ (last.tgtTried /\ ~last.tgtOpened) =>
               /\ last.status = EBADF
               /\ last.sent = 0
               /\ ~SinkIsOpen(LastT)
               /\ LiveHandles(LastT) = {}
        /\ (last.rendered /\ last.rc = EOK /\ last.hBefore <= 0) => last.tgtTried

\* a later pass tried to open the queue again after a render had left the
\* Template with the handle of a failure (-1), and failed with EBADF
C22_Witness ==
    /\ last.kind = "mq"
    /\ nSignals >= 2
    /\ last.hBefore = -1
    /\ last.tgtTried /\ ~last.tgtOpened
    /\ last.status = EBADF

\* where the Template built from entry k is in the registry (the targets of
\* the entries of a configuration are distinct)
PosByTarget(k) ==
    CHOOSE i \in 1..Len(pTemplates) : pTemplates[i].target = cfg.nodes[k].target

\* C23: a dispatch pass visits the Templates last-declared first: when the
\* Templates of entries ka and kb, ka declared before kb, both hold the
\* notified handle and the one of ka has been rendered, the one of kb has
\* been rendered and the pass has left it.
C23_LastDeclaredFirst ==
    (InPass /\ hVar # VAR_INVALID) =>
        \A ka, kb \in 1..Len(cfg.nodes) :
            (/\ ka < kb
             /\ HoldsHandle(pTemplates[PosByTarget(ka)], hVar)
             /\ HoldsHandle(pTemplates[PosByTarget(kb)], hVar)
             /\ pass[PosByTarget(ka)].n > 0) =>
                /\ pass[PosByTarget(kb)].n > 0
                /\ ~(pTemplate = PosByTarget(kb)
                       /\ pc \in {"ProcessTemplates", "ProcessTemplate"})

\* the pass is at the Template declared first, which has just been
\* rendered, after the render of the Template declared second
C23_Witness ==
    /\ pc = "ProcessTemplate"
    /\ Len(cfg.nodes) = 2
    /\ pTemplate = PosByTarget(1)
    /\ HoldsHandle(pTemplates[PosByTarget(1)], hVar)
    /\ HoldsHandle(pTemplates[PosByTarget(2)], hVar)
    /\ pass[PosByTarget(1)].n = 1
    /\ pass[PosByTarget(2)].n = 1
    /\ last.t = PosByTarget(1)

\* C24: once the configuration is loaded the registry holds a Template for
\* every entry, whatever became of its triggers, and for every trigger name
\* that resolves the Template has a TriggerVar with the handle and a
\* notification was requested for the handle, whether or not another
\* trigger of the entry failed to resolve.
C24_EveryEntryRegistered ==
    Loaded =>
        /\ Len(pTemplates) = Len(cfg.nodes)
        /\ \A k \in 1..Len(cfg.nodes) :
              LET entry == cfg.nodes[k]
                  T == pTemplates[PosByTarget(k)]
              IN  /\ T.templateFileName = entry.template
                  /\ Len(T.pTriggers) = Len(entry.trigger)
                  /\ \A j \in 1..Len(entry.trigger) :
                        LET h == VAR_FindByName(entry.trigger[j])
                        IN  h # VAR_INVALID =>
                               (h \in notified /\ HoldsHandle(T, h))

\* an entry none of whose triggers resolves is in the registry
C24_Witness ==
    /\ Loaded
    /\ Len(cfg.nodes) = 1
    /\ \A j \in 1..Len(cfg.nodes[1].trigger) :
          VAR_FindByName(cfg.nodes[1].trigger[j]) = VAR_INVALID
    /\ Len(pTemplates) = 1
    /\ pTemplates[1].target = cfg.nodes[1].target
    /\ notified = {}

\* C25: a render of a Queue Template with keep_open whose queue is already
\* open, when it fails before the send (the template source cannot be
\* opened, or the render fails), sends nothing and leaves the queue handle
\* open and the same; such a queue is closed only by a send that failed.
C25_OpenQueueSurvivesRenderFailure ==
    (last.kind = "mq" /\ last.keep_open /\ last.hBefore > 0) =>
        /\ (~last.srcOpened \/ last.rc # EOK) =>
               /\ last.sent = 0
               /\ ~last.closed
               /\ LastT.mq = last.hBefore
               /\ LiveHandles(LastT) = {last.hBefore}
               /\ last.status # EOK
        /\ (last.closed \/ LastT.mq # last.hBefore) =>
               (last.sent = 1 /\ last.status # EOK)

\* the render into the buffer failed while the queue was open, and the
\* queue is still open on the same handle
C25_Witness ==
    /\ last.kind = "mq" /\ last.keep_open /\ last.hBefore > 0
    /\ last.rendered /\ last.rc # EOK
    /\ last.sent = 0
    /\ LastT.mq = last.hBefore
    /\ LiveHandles(LastT) = {last.hBefore}

RECURSIVE IsConcat(_)
\* s is a concatenation of render outputs
IsConcat(s) ==
    \/ s = <<>>
    \/ \E o \in Outputs :
          /\ Len(o) <= Len(s)
          /\ SubSeq(s, 1, Len(o)) = o
          /\ IsConcat(SubSeq(s, Len(o) + 1, Len(s)))

\* the step is a render of the Template the pass is at
RenderStep ==
    /\ pc = "ProcessTemplate" /\ pc' = "ProcessTemplate"
    /\ pass'[pTemplate].n = pass[pTemplate].n + 1
    /\ last'.rendered

\* C26: for a Stream Template with keep_open and append false, the target
\* up to the offset of the open descriptor is the concatenation of the
\* outputs rendered on it, and a render that finds the descriptor open
\* keeps the descriptor, leaves what is before its offset as it was and
\* writes its output from that offset on: consecutive outputs follow each
\* other in the target, none replaces the one before.
C26_OpenStreamConcatenates ==
    /\ [](\A i \in 1..Len(pTemplates) :
            LET T == pTemplates[i]
            IN  (T.type = TMPL_FD /\ T.keep_open /\ ~T.append /\ T.fd > 0) =>
                    /\ fds[T.fd].pos <= Len(files[T.target])
                    /\ IsConcat(SubSeq(files[T.target], 1, fds[T.fd].pos)))
    /\ [][(/\ RenderStep
            /\ pTemplates[pTemplate].type = TMPL_FD
            /\ pTemplates[pTemplate].keep_open
            /\ ~pTemplates[pTemplate].append
            /\ pTemplates[pTemplate].fd > 0) =>
              LET T == pTemplates[pTemplate]
                  p == fds[T.fd].pos
                  n == Len(last'.out)
              IN  /\ ~last'.tgtTried
                  /\ pTemplates'[pTemplate].fd = T.fd
                  /\ fds'[T.fd].pos = p + n
                  /\ SubSeq(files'[T.target], 1, p) = SubSeq(files[T.target], 1, p)
                  /\ SubSeq(files'[T.target], p + 1, p + n) = last'.out]_vars

\* the second render on an open descriptor: the target holds "a" followed
\* by "bb"
C26_Witness ==
    /\ last.kind = "fd" /\ last.keep_open /\ ~last.append
    /\ last.hBefore > 0 /\ last.rendered
    /\ last.out = <<"b", "b">>
    /\ files[LastT.target] = <<"a", "b", "b">>
    /\ fds[LastT.fd].pos = 3

\* C27: when the rendering buffer could not be set up (varFd is not a valid
\* descriptor) main still loads the configuration and dispatches; every
\* render of a Queue Template returns ENOENT without opening the template
\* source, rendering, opening the queue or sending, and a Stream Template
\* is rendered as with the buffer: its source is opened, and with source
\* and target open the render engine runs and its status is returned.
C27_NoBufferOnlyQueuesFail ==
    ~(varFd > 0) =>
        /\ (PassDone /\ hVar # VAR_INVALID) =>
               \A i \in 1..Len(pTemplates) :
                   HoldsHandle(pTemplates[i], hVar) => pass[i].n > 0
        /\ last.kind = "mq" =>
               /\ last.status = ENOENT
               /\ ~last.srcTried /\ ~last.rendered
               /\ ~last.tgtTried /\ last.sent = 0
               /\ LiveHandles(LastT) = {}
        /\ (/\ last.kind = "fd"
            /\ LastT.templateFileName # NULL /\ LastT.target # NULL) =>
               /\ last.srcTried
               /\ (last.srcOpened /\ (last.hBefore > 0 \/ last.tgtOpened)) =>
                      (last.rendered /\ last.status = last.rc)

\* without the buffer, a pass has called the renderer of a Queue Template,
\* which returned ENOENT
C27_Witness ==
    /\ PassDone
    /\ pVarFP = NULL /\ varFd = -1
    /\ last.kind = "mq"
    /\ last.status = ENOENT
    /\ pass[last.t].n > 0

====
